---- MODULE Spec2Model ----
(***************************************************************************)
(* A model of the blog application in src/app/app.py: the Entry model with *)
(* its save() override and search-index upkeep, the FTSEntry table, the    *)
(* session gate and the views index, create, drafts, detail and edit.      *)
(*                                                                         *)
(* Text is a sequence of one-character strings.  A raised Python exception *)
(* is a value ("NameError", "IntegrityError") carried in the result of the *)
(* operator that models the raising code; "none" means it returned.        *)
(* The database runs in autocommit mode: a row written by Model.save stays *)
(* written when a later statement of the same request raises.              *)
(***************************************************************************)
EXTENDS Naturals, Sequences, FiniteSets

VARIABLES entries, fts, session, response, inflight

vars == <<entries, fts, session, response, inflight>>

(***************************************************************************)
(* Bounds of the model.                                                    *)
(***************************************************************************)
MaxEntries == 2
MaxTitleLen == 3

(***************************************************************************)
(* Characters and strings.                                                 *)
(***************************************************************************)
NL == "\n"

UpperChars == <<"A","B","C","D","E","F","G","H","I","J","K","L","M",
                "N","O","P","Q","R","S","T","U","V","W","X","Y","Z">>

LowerChars == <<"a","b","c","d","e","f","g","h","i","j","k","l","m",
                "n","o","p","q","r","s","t","u","v","w","x","y","z">>

Digits == {"0","1","2","3","4","5","6","7","8","9"}

Range(s) == {s[i] : i \in 1..Len(s)}

UpperSet == Range(UpperChars)

LowerSet == Range(LowerChars)

IsUpper(c) == c \in UpperSet

IsLower(c) == c \in LowerSet

\* str.lower() on one character
LowerChar(c) ==
    IF IsUpper(c)
    THEN LowerChars[CHOOSE i \in 1..Len(UpperChars) : UpperChars[i] = c]
    ELSE c

\* str.lower()
Lower(s) == [i \in 1..Len(s) |-> LowerChar(s[i])]

\* the regular expression class \w
IsWord(c) == IsUpper(c) \/ IsLower(c) \/ c \in Digits \/ c = "_"

\* the characters str.split() splits on
IsSpace(c) == c \in {" ", NL, "\t"}

\* s without its first n characters
Drop(s, n) == IF n >= Len(s) THEN <<>> ELSE SubSeq(s, n + 1, Len(s))

\* the length of the longest prefix of s whose characters are all non-word
RECURSIVE NonWordRun(_)
NonWordRun(s) ==
    IF s = <<>> \/ IsWord(Head(s)) THEN 0 ELSE 1 + NonWordRun(Tail(s))

\* re.sub('[^\w]+', '-', s): scan left to right, each match of [^\w]+ (greedy)
\* is replaced by one '-'
RECURSIVE ReSubNonWord(_)
ReSubNonWord(s) ==
    IF s = <<>> THEN <<>>
    ELSE IF IsWord(Head(s)) THEN <<Head(s)>> \o ReSubNonWord(Tail(s))
    ELSE <<"-">> \o ReSubNonWord(Drop(s, NonWordRun(s)))

\* a slug generator that replaces every non-word character by its own '-'
SlugifyPerChar(title) ==
    [i \in 1..Len(title) |->
        IF IsWord(title[i]) THEN LowerChar(title[i]) ELSE "-"]

\* Entry.save, line 63: re.sub('[^\w]+', '-', self.title.lower())
Slugify(title) == ReSubNonWord(Lower(title))

\* the length of the longest prefix of s without whitespace
RECURSIVE WordRun(_)
WordRun(s) ==
    IF s = <<>> \/ IsSpace(Head(s)) THEN 0 ELSE 1 + WordRun(Tail(s))

\* str.split(): the maximal runs of non-whitespace characters, in order
RECURSIVE Split(_)
Split(s) ==
    IF s = <<>> THEN <<>>
    ELSE IF IsSpace(Head(s)) THEN Split(Tail(s))
    ELSE <<SubSeq(s, 1, WordRun(s))>> \o Split(Drop(s, WordRun(s)))

\* sep.join(parts)
RECURSIVE Join(_, _)
Join(sep, parts) ==
    IF parts = <<>> THEN <<>>
    ELSE IF Len(parts) = 1 THEN parts[1]
    ELSE parts[1] \o sep \o Join(sep, Tail(parts))

\* Python truthiness of a form value
Truthy(v) == v # <<>>

(***************************************************************************)
(* Python name resolution.  The names bound at module scope of app.py when *)
(* a request is handled (imports, configuration, models and views).  A     *)
(* name outside this set raises NameError where it is evaluated.           *)
(***************************************************************************)
ModuleGlobals ==
    {"datetime", "functools", "os", "re", "urllib", "Flask", "abort", "flash",
     "Markup", "redirect", "render_template", "request", "Response", "session",
     "url_for", "markdown", "pws", "ADMIN_PASSWORD", "APP_DIR", "DATABASE",
     "DEBUG", "SECRET_KEY", "SITE_WIDTH", "app", "flask_db", "database",
     "oembed_providers", "Entry", "FTSEntry", "login_required", "login",
     "logout", "index", "create", "drafts", "detail", "edit",
     "clean_querystring", "not_found", "main"}

NameDefined(name) == name \in ModuleGlobals

(***************************************************************************)
(* The two tables.  entries[i] is the row of Entry with id i (ids are      *)
(* assigned 1, 2, ... and rows are never deleted); fts is the set of rows  *)
(* of FTSEntry.  timestamp is the creation order (the clock is monotone).  *)
(***************************************************************************)
Ids(store) == 1..Len(store)

\* slug = CharField(unique=True): the write of row `row` collides with
\* another row's slug
UniqueViolationOff(store, row) == FALSE

UniqueViolation(store, row) ==
    \E i \in Ids(store) : i # row.id /\ store[i].slug = row.slug

\* Model.save: INSERT (force_insert, from Model.create) or UPDATE by id
SaveRow(store, obj, forceInsert) ==
    LET row == IF forceInsert
               THEN [obj EXCEPT !.id = Len(store) + 1,
                                !.timestamp = Len(store) + 1]
               ELSE obj
    IN  IF UniqueViolation(store, row)
        THEN [entries |-> store, obj |-> obj, raised |-> "IntegrityError"]
        ELSE [entries |-> IF forceInsert THEN Append(store, row)
                          ELSE [store EXCEPT ![row.id] = row],
              obj |-> row, raised |-> "none"]

\* Entry.update_search_index.  Line 73 evaluates the name FTSentry and line
\* 75 the name search; neither is bound, so the lookup raises NameError,
\* which the except clause for FTSEntry.DoesNotExist does not catch.
UpdateSearchIndex(idx, obj) ==
    LET search_content == Join(<<NL>>, <<obj.title, obj.content>>)
        found == {r \in idx : r.docid = obj.id}
    IN  IF ~NameDefined("FTSentry")
        THEN [fts |-> idx, raised |-> "NameError"]
        ELSE IF found = {}
        THEN IF ~NameDefined("search")
             THEN [fts |-> idx, raised |-> "NameError"]
             ELSE [fts |-> idx \cup {[docid |-> obj.id, content |-> search_content]},
                   raised |-> "none"]
        ELSE [fts |-> (idx \ found)
                        \cup {[docid |-> obj.id, content |-> search_content]},
              raised |-> "none"]

\* the slug step of Entry.save, made to recompute the slug on every save
WithSlugAlways(obj) == [obj EXCEPT !.slug = Slugify(obj.title)]

\* Entry.save, lines 62-63: derive the slug only when there is none
WithSlug(obj) ==
    IF ~Truthy(obj.slug) THEN [obj EXCEPT !.slug = Slugify(obj.title)] ELSE obj

\* Entry.save: slug, row write, then the index update
EntrySave(store, idx, obj, forceInsert) ==
    LET w == SaveRow(store, WithSlug(obj), forceInsert)
    IN  IF w.raised # "none"
        THEN [entries |-> store, fts |-> idx, obj |-> w.obj, raised |-> w.raised]
        ELSE LET u == UpdateSearchIndex(idx, w.obj)
             IN  [entries |-> w.entries, fts |-> u.fts, obj |-> w.obj,
                  raised |-> u.raised]

\* Model.create(title=, content=, published=): instantiate, save(force_insert)
EntryCreate(store, idx, title, content, published) ==
    EntrySave(store, idx,
              [id |-> 0, title |-> title, slug |-> <<>>, content |-> content,
               published |-> published, timestamp |-> 0],
              TRUE)

\* Entry.public
Public(store) == {i \in Ids(store) : store[i].published = TRUE}

\* Entry.drafts
DraftsOf(store) == {i \in Ids(store) : store[i].published = FALSE}

\* ids as a list, greatest key first, ties by ascending id
OrderDesc(ids, key) ==
    CHOOSE s \in [1..Cardinality(ids) -> ids] :
        /\ \A i, j \in DOMAIN s : i # j => s[i] # s[j]
        /\ \A i, j \in DOMAIN s :
              i < j => \/ key[s[i]] > key[s[j]]
                       \/ (key[s[i]] = key[s[j]] /\ s[i] < s[j])

\* .order_by(Entry.timestamp.desc())
OrderByTimestampDesc(store, ids) ==
    OrderDesc(ids, [i \in ids |-> store[i].timestamp])

(***************************************************************************)
(* SQLite full-text matching as FTSEntry.match and FTSEntry.rank use it:   *)
(* the simple tokenizer (maximal runs of letters and digits, lowercased),  *)
(* a query of several terms matches a document holding all of them, and a  *)
(* better match sorts first.                                               *)
(***************************************************************************)
IsAlnum(c) == IsUpper(c) \/ IsLower(c) \/ c \in Digits

RECURSIVE AlnumRun(_)
AlnumRun(s) ==
    IF s = <<>> \/ ~IsAlnum(Head(s)) THEN 0 ELSE 1 + AlnumRun(Tail(s))

RECURSIVE FtsTokens(_)
FtsTokens(s) ==
    IF s = <<>> THEN <<>>
    ELSE IF ~IsAlnum(Head(s)) THEN FtsTokens(Tail(s))
    ELSE <<Lower(SubSeq(s, 1, AlnumRun(s)))>> \o FtsTokens(Drop(s, AlnumRun(s)))

FtsMatch(content, search) ==
    /\ FtsTokens(search) # <<>>
    /\ Range(FtsTokens(search)) \subseteq Range(FtsTokens(content))

FtsHits(content, search) ==
    LET toks == FtsTokens(content)
    IN  Cardinality({i \in 1..Len(toks) : toks[i] \in Range(FtsTokens(search))})

\* Entry.search
Search(store, idx, query) ==
    LET words == Split(query)
        search == Join(<<" ">>, words)
        hit(i) == {r \in idx : r.docid = i /\ FtsMatch(r.content, search)}
        ids == {i \in Ids(store) : store[i].published = TRUE /\ hit(i) # {}}
        score == [i \in ids |-> FtsHits((CHOOSE r \in hit(i) : TRUE).content, search)]
    IN  IF words = <<>> THEN <<>> ELSE OrderDesc(ids, score)

(***************************************************************************)
(* Requests.  The inputs of the views are drawn from these sets.           *)
(***************************************************************************)
Clients == {"admin", "visitor"}

Workers == {"w1", "w2"}

Methods == {"GET", "POST"}

\* app.config["ADMIN_PASSWORD"]
AdminPassword == "secret"

Passwords == {"", AdminPassword, "guess"}

TitleA == <<"A", " ", "b">>
TitleB == <<"a", "!", " ", "b">>
TitleC == <<"c", "_", "d">>

Titles == {<<>>, TitleA, TitleB, TitleC}

ContentX == <<"x", " ", "y">>
ContentZ == <<"z">>

Contents == {<<>>, ContentX, ContentZ}

\* the published checkbox of the form: absent, or its value
Checkbox == {<<>>, <<"y">>}

Forms == [title : Titles, content : Contents, published : Checkbox]

Slugs == {Slugify(t) : t \in Titles \ {<<>>}} \cup {<<"n", "o">>}

Queries == {<<>>, <<" ">>, <<"b">>, <<"x">>, <<"z", " ", "c">>}

\* what a view answers: the status, the flashed category, the entries the
\* rendered page shows (ids, in order) and the exception that ended it
Resp(op, c, w, status, flashed, shown, raised) ==
    [op |-> op, client |-> c, worker |-> w, status |-> status,
     flash |-> flashed, shown |-> shown, raised |-> raised, arg |-> <<>>]

Idle == [pc |-> "idle", client |-> "admin", obj |-> <<>>]

Init ==
    /\ entries = <<>>
    /\ fts = {}
    /\ session = [c \in Clients |-> FALSE]
    /\ response = Resp("none", "visitor", "main", 200, "none", <<>>, "none")
    /\ inflight = [w \in Workers |-> Idle]

\* login_required: the view runs only with session["logged_in"] set
LoggedIn(c) == session[c] = TRUE

\* login
Login(c, method, password) ==
    /\ IF method = "POST" /\ password # ""
       THEN IF password = AdminPassword
            THEN /\ session' = [session EXCEPT ![c] = TRUE]
                 /\ response' = Resp("login", c, "main", 302, "success", <<>>, "none")
            ELSE /\ session' = session
                 /\ response' = Resp("login", c, "main", 200, "danger", <<>>, "none")
       ELSE /\ session' = session
            /\ response' = Resp("login", c, "main", 200, "none", <<>>, "none")
    /\ UNCHANGED <<entries, fts, inflight>>

\* logout: line 149 evaluates the unbound name request_method
Logout(c, method) ==
    /\ IF ~NameDefined("request_method")
       THEN /\ session' = session
            /\ response' = Resp("logout", c, "main", 500, "none", <<>>, "NameError")
       ELSE IF method = "POST"
       THEN /\ session' = [session EXCEPT ![c] = FALSE]
            /\ response' = Resp("logout", c, "main", 302, "none", <<>>, "none")
       ELSE /\ session' = session
            /\ response' = Resp("logout", c, "main", 200, "none", <<>>, "none")
    /\ UNCHANGED <<entries, fts, inflight>>

\* index: the search results, or the published entries newest first
Index(c, q) ==
    /\ response' = Resp("index", c, "main", 200, "none",
                        IF Truthy(q) THEN Search(entries, fts, q)
                        ELSE OrderByTimestampDesc(entries, Public(entries)),
                        "none")
    /\ UNCHANGED <<entries, fts, session, inflight>>

\* the form check of create and edit, asking for the title only
FormValidTitleOnly(form) == Truthy(form.title)

\* the form check of create and edit, lines 181 and 242
FormValid(form) == Truthy(form.title) /\ Truthy(form.content)

\* create
Create(c, method, form) ==
    /\ IF ~LoggedIn(c)
       THEN /\ response' = Resp("create", c, "main", 302, "none", <<>>, "none")
            /\ UNCHANGED <<entries, fts>>
       ELSE IF method = "POST"
       THEN IF FormValid(form)
            THEN LET r == EntryCreate(entries, fts, form.title, form.content,
                                      Truthy(form.published))
                 IN  /\ Len(r.entries) <= MaxEntries
                     /\ entries' = r.entries
                     /\ fts' = r.fts
                     /\ response' =
                          IF r.raised # "none"
                          THEN Resp("create", c, "main", 500, "none", <<>>, r.raised)
                          ELSE Resp("create", c, "main", 302, "success",
                                    <<r.obj.id>>, "none")
            ELSE /\ response' = Resp("create", c, "main", 200, "danger", <<>>, "none")
                 /\ UNCHANGED <<entries, fts>>
       ELSE /\ response' = Resp("create", c, "main", 200, "none", <<>>, "none")
            /\ UNCHANGED <<entries, fts>>
    /\ UNCHANGED <<session, inflight>>

\* drafts
Drafts(c) ==
    /\ response' =
         IF ~LoggedIn(c)
         THEN Resp("drafts", c, "main", 302, "none", <<>>, "none")
         ELSE Resp("drafts", c, "main", 200, "none",
                   OrderByTimestampDesc(entries, DraftsOf(entries)), "none")
    /\ UNCHANGED <<entries, fts, session, inflight>>

\* the rows detail searches, with the session check left out
VisibleAll(store, authorized) == Ids(store)

\* detail, lines 215-218: every row for a logged-in caller, else Entry.public
Visible(store, authorized) ==
    IF authorized THEN Ids(store) ELSE Public(store)

\* detail, lines 215-219: get_object_or_404 on the rows the caller may see
DetailAnswer(store, authorized, c, slug) ==
    LET found == {i \in Visible(store, authorized) : store[i].slug = slug}
    IN  [(IF found = {}
          THEN Resp("detail", c, "main", 404, "none", <<>>, "none")
          ELSE Resp("detail", c, "main", 200, "none",
                    <<CHOOSE i \in found : TRUE>>, "none"))
         EXCEPT !.arg = slug]

\* detail
Detail(c, slug) ==
    /\ response' = DetailAnswer(entries, LoggedIn(c), c, slug)
    /\ UNCHANGED <<entries, fts, session, inflight>>

\* edit, lines 243-245: the form's values set on the loaded entry
Assign(obj, form) ==
    [obj EXCEPT !.title = form.title, !.content = form.content,
                !.published = Truthy(form.published)]

\* edit
Edit(c, slug, form) ==
    /\ IF ~LoggedIn(c)
       THEN /\ response' = Resp("edit", c, "main", 302, "none", <<>>, "none")
            /\ UNCHANGED <<entries, fts>>
       ELSE LET found == {i \in Ids(entries) : entries[i].slug = slug}
            IN  IF found = {}
                THEN /\ response' = Resp("edit", c, "main", 404, "none", <<>>, "none")
                     /\ UNCHANGED <<entries, fts>>
                ELSE LET entry == entries[CHOOSE i \in found : TRUE]
                     IN  IF FormValid(form)
                         THEN LET r == EntrySave(entries, fts, Assign(entry, form), FALSE)
                              IN  /\ entries' = r.entries
                                  /\ fts' = r.fts
                                  /\ response' =
                                       IF r.raised # "none"
                                       THEN Resp("edit", c, "main", 500, "none",
                                                 <<>>, r.raised)
                                       ELSE Resp("edit", c, "main", 302, "success",
                                                 <<entry.id>>, "none")
                         ELSE /\ response' = Resp("edit", c, "main", 200, "danger",
                                                  <<entry.id>>, "none")
                              /\ UNCHANGED <<entries, fts>>
    /\ UNCHANGED <<session, inflight>>

Next ==
    \/ \E c \in Clients, m \in Methods, pw \in Passwords : Login(c, m, pw)
    \/ \E c \in Clients, m \in Methods : Logout(c, m)
    \/ \E c \in Clients, q \in Queries : Index(c, q)
    \/ \E c \in Clients, m \in Methods, f \in Forms : Create(c, m, f)
    \/ \E c \in Clients : Drafts(c)
    \/ \E c \in Clients, s \in Slugs : Detail(c, s)
    \/ \E c \in Clients, s \in Slugs, f \in Forms : Edit(c, s, f)

Spec == Init /\ [][Next]_vars

(***************************************************************************)
(* The slug generator alone: one create, from the empty store, of every    *)
(* title of up to MaxTitleLen characters over TitleChars.                  *)
(***************************************************************************)
TitleChars == {"a", "B", "_", " ", "!"}

RECURSIVE StringsUpTo(_)
StringsUpTo(n) ==
    IF n = 0 THEN {<<>>}
    ELSE LET shorter == StringsUpTo(n - 1)
         IN  shorter \cup {Append(s, ch) : s \in shorter, ch \in TitleChars}

AllTitles == StringsUpTo(MaxTitleLen)

CreateTitled(c, title) ==
    /\ entries = <<>>
    /\ Create(c, "POST", [title |-> title, content |-> ContentZ, published |-> <<>>])

NextSlug ==
    \/ \E c \in Clients, m \in Methods, pw \in Passwords : Login(c, m, pw)
    \/ \E c \in Clients, t \in AllTitles : CreateTitled(c, t)

SpecSlug == Init /\ [][NextSlug]_vars

(***************************************************************************)
(* The example of the specification: the post "Hello World!".              *)
(***************************************************************************)
HelloWorld == <<"H","e","l","l","o"," ","W","o","r","l","d","!">>

FirstPost == <<"f","i","r","s","t"," ","p","o","s","t">>

ExampleForm == [title |-> HelloWorld, content |-> FirstPost, published |-> <<"y">>]

ExampleQueries == {<<>>, <<"f","i","r","s","t">>, <<"W","o","r","l","d">>}

ExampleSlugs == {<<"h","e","l","l","o","-","w","o","r","l","d">>,
                 <<"h","e","l","l","o","-","w","o","r","l","d","-">>}

NextExample ==
    \/ \E c \in Clients, m \in Methods, pw \in Passwords : Login(c, m, pw)
    \/ \E c \in Clients, m \in Methods : Create(c, m, ExampleForm)
    \/ \E c \in Clients, q \in ExampleQueries : Index(c, q)
    \/ \E c \in Clients : Drafts(c)
    \/ \E c \in Clients, s \in ExampleSlugs : Detail(c, s)

SpecExample == Init /\ [][NextExample]_vars

(***************************************************************************)
(* Concurrent saves: edit handled by the workers of a threaded server, the *)
(* load of the entry, the row write and the index update being separate    *)
(* steps.  inflight[w].obj is the Entry object worker w holds in memory.   *)
(***************************************************************************)
ConcForms == [title : {TitleA}, content : {ContentX, ContentZ},
              published : {<<"y">>}]

ConcSlugs == {Slugify(TitleA), <<"n", "o">>}

\* edit, lines 241-245: the entry is loaded and the form assigned to it
EditLoad(w, c, slug, form) ==
    LET found == {i \in Ids(entries) : entries[i].slug = slug}
    IN  /\ inflight[w].pc \in {"idle", "done"}
        /\ IF LoggedIn(c) /\ found # {} /\ FormValid(form)
           THEN /\ inflight' =
                     [inflight EXCEPT ![w] =
                         [pc |-> "loaded", client |-> c,
                          obj |-> Assign(entries[CHOOSE i \in found : TRUE], form)]]
                /\ UNCHANGED <<entries, fts, session, response>>
           ELSE Edit(c, slug, form)

\* Entry.save, lines 62-64: the slug and the row write
EditWrite(w) ==
    /\ inflight[w].pc = "loaded"
    /\ LET r == SaveRow(entries, WithSlug(inflight[w].obj), FALSE)
       IN  IF r.raised # "none"
           THEN /\ inflight' = [inflight EXCEPT ![w].pc = "done"]
                /\ response' = Resp("edit", inflight[w].client, w, 500, "none",
                                    <<>>, r.raised)
                /\ UNCHANGED <<entries, fts, session>>
           ELSE /\ inflight' = [inflight EXCEPT ![w].pc = "written"]
                /\ entries' = r.entries
                /\ UNCHANGED <<fts, session, response>>

\* Entry.save, line 67, and the rest of edit
EditIndex(w) ==
    /\ inflight[w].pc = "written"
    /\ LET u == UpdateSearchIndex(fts, inflight[w].obj)
       IN  /\ fts' = u.fts
           /\ response' =
                IF u.raised # "none"
                THEN Resp("edit", inflight[w].client, w, 500, "none", <<>>, u.raised)
                ELSE Resp("edit", inflight[w].client, w, 302, "success",
                          <<inflight[w].obj.id>>, "none")
    /\ inflight' = [inflight EXCEPT ![w].pc = "done"]
    /\ UNCHANGED <<entries, session>>

NextConc ==
    \/ \E c \in Clients : Login(c, "POST", AdminPassword)
    \/ \E c \in Clients, f \in ConcForms : Create(c, "POST", f)
    \/ \E w \in Workers, c \in Clients, s \in ConcSlugs, f \in ConcForms :
          EditLoad(w, c, s, f)
    \/ \E w \in Workers : EditWrite(w)
    \/ \E w \in Workers : EditIndex(w)

SpecConc == Init /\ [][NextConc]_vars

(***************************************************************************)
(* Properties.                                                             *)
(***************************************************************************)
IndexRecords(i) == {r \in fts : r.docid = i}

SearchContent(e) == e.title \o <<NL>> \o e.content

WordsOf(e) == Range(Split(e.title)) \cup Range(Split(e.content))

\* C1: every persisted entry has exactly one search-index record, with the
\* entry's id as docid and the entry's current title, a newline and its
\* current content as content (so no text of an earlier version remains).
C1_IndexInSync ==
    \A i \in Ids(entries) :
        IndexRecords(i) = {[docid |-> i, content |-> SearchContent(entries[i])]}

\* C2: a create or save whose index update fails leaves no trace: the step
\* that ends in the failure changes neither the entries nor the index.
C2_FailedUpsertLeavesNoTrace ==
    [][(response'.op \in {"create", "edit"} /\ response'.raised = "NameError")
          => (entries' = entries /\ fts' = fts)]_vars

C4_NoDraftToUnauthorized ==
    /\ \A i \in Range(response.shown) :
          ~entries[i].published => session[response.client]
    /\ \A c \in Clients, i \in Ids(entries) :
          (~LoggedIn(c) /\ ~entries[i].published)
             => DetailAnswer(entries, LoggedIn(c), c, entries[i].slug).status = 404

C4_Witness ==
    /\ response.op = "detail"
    /\ response.status = 404
    /\ ~session[response.client]
    /\ \E i \in Ids(entries) :
          ~entries[i].published /\ entries[i].slug = response.arg
    /\ \E c \in Clients : session[c]

\* the title lowercased, each maximal run of non-word characters as one
\* hyphen: position i gives its lowercase letter if it is a word character, a
\* hyphen if it starts a run of non-word characters, and nothing otherwise
RECURSIVE HyphenatedFrom(_, _)
HyphenatedFrom(t, i) ==
    IF i > Len(t) THEN <<>>
    ELSE (IF IsWord(t[i]) THEN <<LowerChar(t[i])>>
          ELSE IF i = 1 \/ IsWord(t[i - 1]) THEN <<"-">>
          ELSE <<>>) \o HyphenatedFrom(t, i + 1)

\* C5: an entry created without a slug is stored with the slug that is its
\* title lowercased with every maximal run of non-word characters replaced
\* by exactly one hyphen.
C5_SlugDerived ==
    [][\A i \in Ids(entries') \ Ids(entries) :
          entries'[i].slug = HyphenatedFrom(entries'[i].title, 1)]_vars

C5_Witness ==
    \E i \in Ids(entries) :
        /\ entries[i].title = <<"!", " ", "B">>
        /\ entries[i].slug = <<"-", "b">>

\* C6: after create("Hello World!", "first post", published) on the empty
\* store the entry's slug is "hello-world", search("first") returns exactly
\* it, search("World") returns it and drafts() does not contain it.
C6_HelloWorldExample ==
    (/\ Len(entries) = 1
     /\ entries[1].title = HelloWorld
     /\ entries[1].content = FirstPost
     /\ entries[1].published)
    => /\ entries[1].slug = <<"h","e","l","l","o","-","w","o","r","l","d">>
       /\ Search(entries, fts, <<"f","i","r","s","t">>) = <<1>>
       /\ 1 \in Range(Search(entries, fts, <<"W","o","r","l","d">>))
       /\ 1 \notin DraftsOf(entries)

\* C7: no step changes the slug or the id of a persisted entry, whatever it
\* does to the title, the content or the published flag, and every persisted
\* entry has a slug.
C7_SlugStable ==
    [][\A i \in Ids(entries) :
          /\ entries[i].slug # <<>>
          /\ entries[i].id = i
          /\ i \in Ids(entries')
          /\ entries'[i].slug = entries[i].slug
          /\ entries'[i].id = entries[i].id]_vars

C7_Witness ==
    /\ response.op = "edit"
    /\ \E i \in Ids(entries) :
          /\ entries[i].title = TitleC
          /\ entries[i].slug = Slugify(TitleA)

\* C8: a create or edit request without a title or without a content is
\* answered with the validation message and writes nothing; no entry without
\* a title or without a content is ever stored.
C8_InvalidFormWritesNothing ==
    /\ [](\A i \in Ids(entries) :
             entries[i].title # <<>> /\ entries[i].content # <<>>)
    /\ [][(response'.op \in {"create", "edit"} /\ response'.flash = "danger")
             => (entries' = entries /\ fts' = fts)]_vars

C8_Witness ==
    /\ response.op = "create"
    /\ response.flash = "danger"
    /\ session[response.client]
    /\ Len(entries) >= 1

\* C9: the persisted entries have pairwise distinct, non-empty slugs, and a
\* create that fails on the slug constraint changes neither the entries nor
\* the index (no renaming, no retry).
C9_SlugsUnique ==
    /\ [](\A i, j \in Ids(entries) :
             /\ entries[i].slug # <<>>
             /\ (i # j => entries[i].slug # entries[j].slug))
    /\ [][(response'.op = "create" /\ response'.raised = "IntegrityError")
             => (entries' = entries /\ fts' = fts)]_vars

C9_Witness ==
    /\ response.op = "create"
    /\ response.raised = "IntegrityError"
    /\ Len(entries) = 2

\* C10: once two workers have both finished a save of the same entry, the
\* entry has exactly one index record, holding the title, a newline and the
\* content of the worker whose index update ran last.
C10_LastIndexUpdateWins ==
    \A w \in Workers : \A v \in Workers \ {w} :
        (/\ inflight[w].pc = "done"
         /\ inflight[v].pc = "done"
         /\ inflight[w].obj.id = inflight[v].obj.id
         /\ response.op = "edit"
         /\ response.worker = w)
        => IndexRecords(inflight[w].obj.id)
             = {[docid |-> inflight[w].obj.id,
                 content |-> SearchContent(inflight[w].obj)]}

====
